---------------------------- MODULE Spec2Model ----------------------------
(***************************************************************************)
(* A model of the user CRUD Lambda handler (src/unnamed/part_000, with the *)
(* same logic packaged in src/pkg/user/user.go) and of the DynamoDB table  *)
(* it talks to.                                                            *)
(*                                                                         *)
(* Go strings are modelled as sequences of one-character strings, so that  *)
(* len() and the e-mail regular expression are computed, not assumed.      *)
(* The table is a set of items (attribute maps) whose primary key is the   *)
(* attribute "email": the code addresses items by that key alone in        *)
(* GetItem and DeleteItem.  Every store call takes an outcome flag chosen  *)
(* by the environment: TRUE = the call succeeds, FALSE = it returns an     *)
(* error and has no effect.  Reads are taken to be consistent.             *)
(***************************************************************************)
EXTENDS Integers, Sequences, FiniteSets

VARIABLES
    store,      \* the DynamoDB table: a set of items
    request,    \* sequential service: the request handled last
    response,   \* sequential service: its response (or NoResponse after a panic)
    panicked,   \* sequential service: the last invocation ended in a Go panic
    calls,      \* sequential service: the store calls the last invocation made
    written,    \* sequential service: the record of the most recent 201, if no write followed
    existed,    \* sequential service: the table held a record under the request's
                \* email when the request arrived
    pc,         \* concurrent invocations: where each invocation stands
    req,        \* concurrent invocations: the request of each
    resp,       \* concurrent invocations: the response of each
    pending,    \* concurrent invocations: the parsed user between lookup and put
    pcalls,     \* concurrent invocations: the store calls each has made
    raced       \* concurrent invocations: passed the existence check while another
                \* POST for the same email was between its check and its put

vars == <<store, request, response, panicked, calls, written, existed, pc, req, resp, pending, pcalls, raced>>

-----------------------------------------------------------------------------
(* Bounds of the model *)

\* number of concurrently running invocations in SpecRace
NumInvocations == 2

-----------------------------------------------------------------------------
(* Go strings *)

EmptyString == <<>>

len(s) == Len(s)

Nil == [nil |-> TRUE]

-----------------------------------------------------------------------------
(* isEmailValid: the regular expression of part_000:71, computed *)

Lower == {"a","b","c","d","e","f","g","h","i","j","k","l","m",
          "n","o","p","q","r","s","t","u","v","w","x","y","z"}
Upper == {"A","B","C","D","E","F","G","H","I","J","K","L","M",
          "N","O","P","Q","R","S","T","U","V","W","X","Y","Z"}
Digit == {"0","1","2","3","4","5","6","7","8","9"}

\* letters and digits
AlnumChars == Lower \cup Upper \cup Digit

\* the grave accent, which the lexer does not accept inside a string
GraveAccent == "grave"

\* the local-part character class: letters, digits and the listed punctuation
LocalChars == AlnumChars \cup {".","!","#","$","%","&","'","*","+","/","=",
                               "?","^","_",GraveAccent,"{","|","}","~","-"}

MaxLocalLen == 64
MaxLabelMiddle == 61
MinEmailLen == 3
MaxEmailLen == 254

\* the characters of a DNS label, and of a domain
LabelChars == AlnumChars \cup {"-"}
DomainChars == LabelChars \cup {"."}

\* the domain: labels separated by single dots, where a label is a letter or
\* digit, then optionally up to 61 letters, digits or hyphens followed by a
\* letter or digit.  Position by position: a label starts (after a dot or at
\* the start) and ends (before a dot or at the end) with a letter or digit,
\* and no run of more than 63 characters is free of dots.
MatchDomain(d) ==
    /\ Len(d) >= 1
    /\ \A i \in 1..Len(d) :
         /\ d[i] \in DomainChars
         /\ (i = 1 \/ d[i-1] = ".") => d[i] \in AlnumChars
         /\ (i = Len(d) \/ d[i+1] = ".") => d[i] \in AlnumChars
    /\ \A i \in 1..(Len(d) - (MaxLabelMiddle + 2)) :
         \E k \in i..(i + MaxLabelMiddle + 2) : d[k] = "."

\* 1 to 64 local characters, an at-sign, a domain, anchored at both ends;
\* the at-sign is not a local character, so the local part ends at the first one
MatchEmail(s) ==
    \E k \in 1..Len(s) :
        /\ s[k] = "@"
        /\ \A i \in 1..(k - 1) : s[i] \in LocalChars
        /\ k - 1 >= 1
        /\ k - 1 <= MaxLocalLen
        /\ MatchDomain(SubSeq(s, k + 1, Len(s)))

isEmailValid(email) ==
    IF len(email) < MinEmailLen \/ len(email) > MaxEmailLen \/ ~MatchEmail(email)
    THEN FALSE
    ELSE TRUE

-----------------------------------------------------------------------------
(* The User record, the JSON codec and the attribute-value codec *)

ZeroUser == [Email |-> EmptyString, FirstName |-> EmptyString, LastName |-> EmptyString]

\* json.Unmarshal into a User: a body that is not a JSON object with string
\* fields is an error; a missing field is left at the zero value.  A request
\* body is [wellFormed, email, firstName, lastName].
json_Unmarshal(body) ==
    IF ~body.wellFormed
    THEN [err |-> TRUE, user |-> ZeroUser]
    ELSE [err |-> FALSE,
          user |-> [Email |-> body.email,
                    FirstName |-> body.firstName,
                    LastName |-> body.lastName]]

\* json.Marshal of a *User, with the json tags of the struct
json_MarshalUser(user) ==
    [email |-> user.Email, firstName |-> user.FirstName, lastName |-> user.LastName]

\* ErrorBody{&msg} as JSON
ErrorBody(msg) == [error |-> msg]

ErrorInvalidUserData == "Invalid User Data"
ErrorMethodNotAllowed == "Method Not Allowed"
ErrorFailedToUnmarshalRecord == "Failed to unmarshal record"
ErrorInvalidEmail == "Invalid Email"
ErrorFailedToFetchRecord == "Failed to fetch record"
ErrorCouldNotMarshalItem == "Could not marshal item"
ErrorCouldNotDeleteItem == "Could not delete item"
ErrorCouldNotDynamoPutItem == "Could not Dynamo Put Item Error"
ErrorUserAlreadyExists == "User already exists"
ErrorUserDoesNotExists == "User does not exist"

StatusOK == 200
StatusCreated == 201
StatusBadRequest == 400
StatusMethodNotAllowed == 405
StatusUnprocessableEntity == 422

\* the encoder writes an empty string as NULL, any other string as S
EncodeString(s) == IF len(s) = 0 THEN [NULL |-> TRUE] ELSE [S |-> s]

\* a MarshalMap that loses the lastName field
MarshalMapDropLastName(user) ==
    [err |-> FALSE,
     av |-> [email |-> EncodeString(user.Email),
             firstName |-> EncodeString(user.FirstName),
             lastName |-> EncodeString(EmptyString)]]

\* dynamodbattribute.MarshalMap(user): a struct of strings always encodes
MarshalMap(user) ==
    [err |-> FALSE,
     av |-> [email |-> EncodeString(user.Email),
             firstName |-> EncodeString(user.FirstName),
             lastName |-> EncodeString(user.LastName)]]

\* decoding one attribute into a string field: absent or NULL leaves the zero value
DecodeString(item, name) ==
    IF name \notin DOMAIN item THEN EmptyString
    ELSE IF "S" \in DOMAIN item[name] THEN item[name].S
    ELSE EmptyString

\* dynamodbattribute.UnmarshalMap(result.Item, &item): a nil map gives the zero
\* User; an attribute that is neither a string nor NULL is an error
UnmarshalMap(item) ==
    IF \E name \in DOMAIN item : DOMAIN item[name] \cap {"S", "NULL"} = {}
    THEN [err |-> TRUE, user |-> ZeroUser]
    ELSE [err |-> FALSE,
          user |-> [Email |-> DecodeString(item, "email"),
                    FirstName |-> DecodeString(item, "firstName"),
                    LastName |-> DecodeString(item, "lastName")]]

-----------------------------------------------------------------------------
(* The table: the four calls the code makes on dynaClient *)

\* the nil map of a GetItem output that found nothing
NoItem == <<>>

\* the items of the table stored under a key
ItemsAt(st, email) == {i \in st : i.email = [S |-> email]}

\* dynaClient.GetItem with Key {"email": {S: email}}
GetItem(st, email, ok) ==
    IF ~ok THEN [err |-> TRUE, Item |-> NoItem]
    ELSE IF ItemsAt(st, email) = {} THEN [err |-> FALSE, Item |-> NoItem]
    ELSE [err |-> FALSE, Item |-> CHOOSE i \in ItemsAt(st, email) : TRUE]

\* a PutItem that adds the item without replacing the one under its key
PutItemAppend(st, av, ok) ==
    IF ~ok THEN [err |-> TRUE, store |-> st]
    ELSE [err |-> FALSE, store |-> st \cup {av}]

\* dynaClient.PutItem with Item av: replaces whatever the key held
PutItem(st, av, ok) ==
    IF ~ok THEN [err |-> TRUE, store |-> st]
    ELSE [err |-> FALSE, store |-> {i \in st : i.email # av.email} \cup {av}]

\* dynaClient.DeleteItem with Key {"email": {S: email}}: deleting a key that
\* holds nothing is a success
DeleteItem(st, email, ok) ==
    IF ~ok THEN [err |-> TRUE, store |-> st]
    ELSE [err |-> FALSE, store |-> st \ ItemsAt(st, email)]

\* dynaClient.Scan of the whole table
Scan(st, ok) ==
    IF ~ok THEN [err |-> TRUE, Items |-> {}]
    ELSE [err |-> FALSE, Items |-> st]

\* one entry of an invocation's record of store calls
Call(op, key, ok) == [op |-> op, key |-> key, ok |-> ok]

-----------------------------------------------------------------------------
(* The handlers of part_000 *)

JSONNull == [null |-> TRUE]

\* json.Marshal of a response body: a *User by its json tags, nil as null,
\* an ErrorBody or a store output as it is
json_Marshal(body) ==
    IF body = Nil THEN JSONNull
    ELSE IF "Email" \in DOMAIN body THEN json_MarshalUser(body)
    ELSE body

APIResponse(status, body) ==
    [StatusCode |-> status,
     Body |-> json_Marshal(body),
     ContentType |-> "application/json"]

\* what an invocation that panicked hands back: no response at all
NoResponse == [StatusCode |-> 0, Body |-> JSONNull, ContentType |-> "none"]

\* the result of running a handler: it returned resp, or it panicked
Returned(rsp, st, cs) == [panic |-> FALSE, resp |-> rsp, store |-> st, calls |-> cs]
Panicked(st, cs) == [panic |-> TRUE, resp |-> NoResponse, store |-> st, calls |-> cs]

\* a fetchUser that reports a missing record as a failed lookup
fetchUserNotFound(st, email, ok) ==
    LET result == GetItem(st, email, ok)
        item == UnmarshalMap(result.Item)
    IN  IF result.err \/ result.Item = NoItem
        THEN [user |-> Nil, err |-> ErrorBody(ErrorFailedToFetchRecord)]
        ELSE IF item.err
        THEN [user |-> Nil, err |-> ErrorBody(ErrorFailedToUnmarshalRecord)]
        ELSE [user |-> item.user, err |-> Nil]

fetchUser(st, email, ok) ==
    LET result == GetItem(st, email, ok)
        item == UnmarshalMap(result.Item)
    IN  IF result.err
        THEN [user |-> Nil, err |-> ErrorBody(ErrorFailedToFetchRecord)]
        ELSE IF item.err
        THEN [user |-> Nil, err |-> ErrorBody(ErrorFailedToUnmarshalRecord)]
        ELSE [user |-> item.user, err |-> Nil]

showUser(st, email, ok) ==
    LET f == fetchUser(st, email, ok)
        cs == <<Call("GetItem", email, ok)>>
    IN  IF f.err # Nil
        THEN Returned(APIResponse(StatusBadRequest, f.err), st, cs)
        ELSE Returned(APIResponse(StatusOK, f.user), st, cs)

listUsers(st, ok) ==
    LET result == Scan(st, ok)
        cs == <<Call("Scan", EmptyString, ok)>>
    IN  IF result.err
        THEN Returned(APIResponse(StatusBadRequest, ErrorBody(ErrorFailedToFetchRecord)), st, cs)
        ELSE Returned(APIResponse(StatusOK, [Items |-> result.Items]), st, cs)

getUser(st, r, ok) ==
    LET email == r.QueryEmail
    IN  IF len(email) > 0 THEN showUser(st, email, ok) ELSE listUsers(st, ok)

\* createUser up to and including the existence check (lines 142-157):
\* either the handler is over (done), or the parsed user goes on to be saved
createUserCheck(st, r, getOk) ==
    LET parsed == json_Unmarshal(r.Body)
        user == parsed.user
        f == fetchUser(st, user.Email, getOk)
        currentUser == f.user
        cs == <<Call("GetItem", user.Email, getOk)>>
    IN  IF parsed.err
        THEN [done |-> TRUE, user |-> user,
              out |-> Returned(APIResponse(StatusUnprocessableEntity,
                                           ErrorBody(ErrorInvalidUserData)), st, <<>>)]
        ELSE IF ~isEmailValid(user.Email)
        THEN [done |-> TRUE, user |-> user,
              out |-> Returned(APIResponse(StatusBadRequest,
                                           ErrorBody(ErrorInvalidEmail)), st, <<>>)]
        ELSE IF currentUser = Nil
        THEN [done |-> TRUE, user |-> user, out |-> Panicked(st, cs)]
        ELSE IF len(currentUser.Email) # 0
        THEN [done |-> TRUE, user |-> user,
              out |-> Returned(APIResponse(StatusBadRequest,
                                           ErrorBody(ErrorUserAlreadyExists)), st, cs)]
        ELSE [done |-> FALSE, user |-> user, out |-> Returned(NoResponse, st, cs)]

\* a save that refuses when a record has appeared under the email meanwhile
createUserSaveRecheck(st, user, putOk) ==
    LET m == MarshalMap(user)
        result == PutItem(st, m.av, putOk)
        cs == <<Call("PutItem", user.Email, putOk)>>
    IN  IF ItemsAt(st, user.Email) # {}
        THEN Returned(APIResponse(StatusBadRequest, ErrorBody(ErrorUserAlreadyExists)), st, cs)
        ELSE IF result.err
        THEN Returned(APIResponse(StatusBadRequest,
                                  ErrorBody(ErrorCouldNotDynamoPutItem)), result.store, cs)
        ELSE Returned(APIResponse(StatusCreated, Nil), result.store, cs)

\* createUser from "Save user" on (lines 158-181)
createUserSave(st, user, putOk) ==
    LET m == MarshalMap(user)
        result == PutItem(st, m.av, putOk)
        cs == <<Call("PutItem", user.Email, putOk)>>
    IN  IF m.err
        THEN Returned(APIResponse(StatusBadRequest, ErrorBody(ErrorCouldNotMarshalItem)), st, <<>>)
        ELSE IF result.err
        THEN Returned(APIResponse(StatusBadRequest,
                                  ErrorBody(ErrorCouldNotDynamoPutItem)), result.store, cs)
        ELSE Returned(APIResponse(StatusCreated, Nil), result.store, cs)

\* a createUser that saves without looking the email up first
createUserNoCheck(st, r, getOk, putOk) ==
    LET parsed == json_Unmarshal(r.Body)
    IN  IF parsed.err
        THEN Returned(APIResponse(StatusUnprocessableEntity,
                                  ErrorBody(ErrorInvalidUserData)), st, <<>>)
        ELSE createUserSave(st, parsed.user, putOk)

\* a createUser that saves before it validates and checks
createUserSaveFirst(st, r, getOk, putOk) ==
    LET c == createUserCheck(st, r, getOk)
        s == createUserSave(st, c.user, putOk)
    IN  IF c.done THEN [c.out EXCEPT !.store = s.store, !.calls = s.calls \o c.out.calls]
        ELSE [s EXCEPT !.calls = c.out.calls \o s.calls]

createUser(st, r, getOk, putOk) ==
    LET c == createUserCheck(st, r, getOk)
        s == createUserSave(st, c.user, putOk)
    IN  IF c.done THEN c.out
        ELSE [s EXCEPT !.calls = c.out.calls \o s.calls]

\* updateUser up to and including the existence check (lines 185-196)
updateUserCheck(st, r, getOk) ==
    LET parsed == json_Unmarshal(r.Body)
        user == parsed.user
        f == fetchUser(st, user.Email, getOk)
        currentUser == f.user
        cs == <<Call("GetItem", user.Email, getOk)>>
    IN  IF parsed.err
        THEN [done |-> TRUE, user |-> user,
              out |-> Returned(APIResponse(StatusUnprocessableEntity,
                                           ErrorBody(ErrorInvalidEmail)), st, <<>>)]
        ELSE IF currentUser = Nil
        THEN [done |-> TRUE, user |-> user, out |-> Panicked(st, cs)]
        ELSE IF len(currentUser.Email) = 0
        THEN [done |-> TRUE, user |-> user,
              out |-> Returned(APIResponse(StatusBadRequest,
                                           ErrorBody(ErrorUserDoesNotExists)), st, cs)]
        ELSE [done |-> FALSE, user |-> user, out |-> Returned(NoResponse, st, cs)]

\* updateUser from "Save user" on (lines 197-220)
updateUserSave(st, user, putOk) ==
    LET m == MarshalMap(user)
        result == PutItem(st, m.av, putOk)
        cs == <<Call("PutItem", user.Email, putOk)>>
    IN  IF m.err
        THEN Returned(APIResponse(StatusBadRequest, ErrorBody(ErrorCouldNotMarshalItem)), st, <<>>)
        ELSE IF result.err
        THEN Returned(APIResponse(StatusBadRequest,
                                  ErrorBody(ErrorCouldNotDynamoPutItem)), result.store, cs)
        ELSE Returned(APIResponse(StatusCreated, Nil), result.store, cs)

updateUser(st, r, getOk, putOk) ==
    LET c == updateUserCheck(st, r, getOk)
        s == updateUserSave(st, c.user, putOk)
    IN  IF c.done THEN c.out
        ELSE [s EXCEPT !.calls = c.out.calls \o s.calls]

\* the DeleteItemOutput of a delete that asked for no return values
DeleteItemOutput == [Attributes |-> JSONNull]

\* a deleteUser that answers 400 when there is nothing to delete
deleteUserMustExist(st, r, ok) ==
    LET email == r.QueryEmail
        result == DeleteItem(st, email, ok)
        cs == <<Call("DeleteItem", email, ok)>>
    IN  IF result.err \/ ItemsAt(st, email) = {}
        THEN Returned(APIResponse(StatusBadRequest,
                                  ErrorBody(ErrorCouldNotDeleteItem)), result.store, cs)
        ELSE Returned(APIResponse(StatusOK, DeleteItemOutput), result.store, cs)

deleteUser(st, r, ok) ==
    LET email == r.QueryEmail
        result == DeleteItem(st, email, ok)
        cs == <<Call("DeleteItem", email, ok)>>
    IN  IF result.err
        THEN Returned(APIResponse(StatusBadRequest,
                                  ErrorBody(ErrorCouldNotDeleteItem)), result.store, cs)
        ELSE Returned(APIResponse(StatusOK, DeleteItemOutput), result.store, cs)

methodNotAllowed(st) ==
    Returned(APIResponse(StatusMethodNotAllowed, ErrorBody(ErrorMethodNotAllowed)), st, <<>>)

\* a router that treats every unknown method as a GET
handlerDefaultGet(st, r, ok1, ok2) ==
    CASE r.HTTPMethod = "POST" -> createUser(st, r, ok1, ok2)
      [] r.HTTPMethod = "PUT" -> updateUser(st, r, ok1, ok2)
      [] r.HTTPMethod = "DELETE" -> deleteUser(st, r, ok1)
      [] OTHER -> getUser(st, r, ok1)

\* the switch on req.HTTPMethod; ok1 and ok2 are the outcomes of the first
\* and the second store call the chosen handler makes
handler(st, r, ok1, ok2) ==
    CASE r.HTTPMethod = "GET" -> getUser(st, r, ok1)
      [] r.HTTPMethod = "POST" -> createUser(st, r, ok1, ok2)
      [] r.HTTPMethod = "PUT" -> updateUser(st, r, ok1, ok2)
      [] r.HTTPMethod = "DELETE" -> deleteUser(st, r, ok1)
      [] OTHER -> methodNotAllowed(st)

-----------------------------------------------------------------------------
(* The requests the model sends *)

EmailA == <<"a", "@", "b", ".", "c", "o">>
EmailB == <<"x", "@", "y">>
EmailNoAt == <<"a", "b">>

Emails == {EmailA, EmailB, EmailNoAt, EmptyString}
ValidEmails == {e \in Emails : isEmailValid(e)}

Ann == <<"A", "n", "n">>
Lee == <<"L", "e", "e">>

\* the firstName/lastName pairs of the bodies
NamePairs == {<<Ann, EmptyString>>, <<EmptyString, Lee>>, <<Ann, Lee>>}

\* a body that does not parse: the empty body of a GET or DELETE, or broken JSON
BadBody == [wellFormed |-> FALSE, email |-> EmptyString,
            firstName |-> EmptyString, lastName |-> EmptyString]

UserBodies(emails) ==
    {[wellFormed |-> TRUE, email |-> e, firstName |-> n[1], lastName |-> n[2]] :
        e \in emails, n \in NamePairs}

Bodies == {BadBody} \cup UserBodies(Emails)

\* a request: the method, the body, and QueryStringParameters["email"], which
\* is the empty string when the parameter is absent
BodyRequests(method, bodies) ==
    [HTTPMethod : {method}, Body : bodies, QueryEmail : {EmptyString}]

QueryRequests(method, emails) ==
    [HTTPMethod : {method}, Body : {BadBody}, QueryEmail : emails]

OtherMethods == {"PATCH", "get"}

NoRequest == [HTTPMethod |-> "", Body |-> BadBody, QueryEmail |-> EmptyString]

-----------------------------------------------------------------------------
(* The service handling one request after the other *)

Procs == 1..NumInvocations

Init ==
    /\ store = {}
    /\ request = NoRequest
    /\ response = NoResponse
    /\ panicked = FALSE
    /\ calls = <<>>
    /\ written = Nil
    /\ existed = FALSE
    /\ pc = [p \in Procs |-> "idle"]
    /\ req = [p \in Procs |-> NoRequest]
    /\ resp = [p \in Procs |-> NoResponse]
    /\ pending = [p \in Procs |-> ZeroUser]
    /\ pcalls = [p \in Procs |-> <<>>]
    /\ raced = [p \in Procs |-> FALSE]

raceVars == <<pc, req, resp, pending, pcalls, raced>>
serviceVars == <<request, response, panicked, calls, written, existed>>

\* the email a request is about: the body's for POST and PUT, the query
\* parameter's for GET and DELETE
KeyOf(r) ==
    IF r.HTTPMethod \in {"POST", "PUT"}
    THEN json_Unmarshal(r.Body).user.Email
    ELSE r.QueryEmail

\* the record a 201 has just written, kept until the table changes again
writtenAfter(o, r) ==
    IF ~o.panic /\ o.resp.StatusCode = StatusCreated
    THEN [user |-> json_Unmarshal(r.Body).user, by |-> r.HTTPMethod]
    ELSE IF o.store # store THEN Nil
    ELSE written

\* Each action is one invocation of handler, from the request to the
\* response or the panic.

GetUser ==
    \E r \in QueryRequests("GET", Emails) : \E ok \in BOOLEAN :
        LET o == handler(store, r, ok, TRUE)
        IN  /\ store' = o.store
            /\ request' = r
            /\ response' = o.resp
            /\ panicked' = o.panic
            /\ calls' = o.calls
            /\ written' = writtenAfter(o, r)
            /\ existed' = (ItemsAt(store, KeyOf(r)) # {})
            /\ UNCHANGED raceVars

CreateUser ==
    \E r \in BodyRequests("POST", Bodies) : \E getOk, putOk \in BOOLEAN :
        LET o == handler(store, r, getOk, putOk)
        IN  /\ store' = o.store
            /\ request' = r
            /\ response' = o.resp
            /\ panicked' = o.panic
            /\ calls' = o.calls
            /\ written' = writtenAfter(o, r)
            /\ existed' = (ItemsAt(store, KeyOf(r)) # {})
            /\ UNCHANGED raceVars

UpdateUser ==
    \E r \in BodyRequests("PUT", Bodies) : \E getOk, putOk \in BOOLEAN :
        LET o == handler(store, r, getOk, putOk)
        IN  /\ store' = o.store
            /\ request' = r
            /\ response' = o.resp
            /\ panicked' = o.panic
            /\ calls' = o.calls
            /\ written' = writtenAfter(o, r)
            /\ existed' = (ItemsAt(store, KeyOf(r)) # {})
            /\ UNCHANGED raceVars

DeleteUser ==
    \E r \in QueryRequests("DELETE", Emails) : \E ok \in BOOLEAN :
        LET o == handler(store, r, ok, TRUE)
        IN  /\ store' = o.store
            /\ request' = r
            /\ response' = o.resp
            /\ panicked' = o.panic
            /\ calls' = o.calls
            /\ written' = writtenAfter(o, r)
            /\ existed' = (ItemsAt(store, KeyOf(r)) # {})
            /\ UNCHANGED raceVars

MethodNotAllowed ==
    \E m \in OtherMethods : \E r \in QueryRequests(m, {EmailA, EmptyString}) :
        LET o == handler(store, r, TRUE, TRUE)
        IN  /\ store' = o.store
            /\ request' = r
            /\ response' = o.resp
            /\ panicked' = o.panic
            /\ calls' = o.calls
            /\ written' = writtenAfter(o, r)
            /\ existed' = (ItemsAt(store, KeyOf(r)) # {})
            /\ UNCHANGED raceVars

Next ==
    \/ GetUser
    \/ CreateUser
    \/ UpdateUser
    \/ DeleteUser
    \/ MethodNotAllowed

Spec == Init /\ [][Next]_vars

-----------------------------------------------------------------------------
(* Concurrent invocations: Lambda runs NumInvocations copies of the handler *)
(* against the one table.  An invocation's steps are its store calls: the  *)
(* existence check (GetItem) and the save (PutItem) of a POST or PUT are   *)
(* two steps, between which other invocations may run.                     *)

\* the concurrent invocations all work on one email
RaceEmails == {EmailA}

RaceBodies == UserBodies(RaceEmails)

\* the other POSTs for the same email that have passed their existence check
\* and not yet written
Rivals(p, email) ==
    {q \in Procs \ {p} : /\ pc[q] = "put"
                         /\ req[q].HTTPMethod = "POST"
                         /\ pending[q].Email = email}

\* handler up to the end of the existence check of createUser
StartCreate(p) ==
    /\ pc[p] = "idle"
    /\ \E r \in BodyRequests("POST", RaceBodies) : \E getOk \in BOOLEAN :
        LET c == createUserCheck(store, r, getOk)
            rivals == IF c.done THEN {} ELSE Rivals(p, c.user.Email)
        IN  /\ req' = [req EXCEPT ![p] = r]
            /\ pc' = [pc EXCEPT ![p] = IF ~c.done THEN "put"
                                       ELSE IF c.out.panic THEN "panic" ELSE "done"]
            /\ resp' = [resp EXCEPT ![p] = c.out.resp]
            /\ pending' = [pending EXCEPT ![p] = c.user]
            /\ pcalls' = [pcalls EXCEPT ![p] = c.out.calls]
            /\ raced' = [q \in Procs |->
                            IF rivals # {} /\ (q = p \/ q \in rivals) THEN TRUE
                            ELSE IF q = p THEN FALSE
                            ELSE raced[q]]
            /\ UNCHANGED <<store, serviceVars>>

\* the rest of createUser: the save and the response
FinishCreate(p) ==
    /\ pc[p] = "put"
    /\ req[p].HTTPMethod = "POST"
    /\ \E putOk \in BOOLEAN :
        LET o == createUserSave(store, pending[p], putOk)
        IN  /\ store' = o.store
            /\ resp' = [resp EXCEPT ![p] = o.resp]
            /\ pcalls' = [pcalls EXCEPT ![p] = pcalls[p] \o o.calls]
            /\ pc' = [pc EXCEPT ![p] = "done"]
            /\ UNCHANGED <<req, pending, raced, serviceVars>>

\* handler up to the end of the existence check of updateUser
StartUpdate(p) ==
    /\ pc[p] = "idle"
    /\ \E r \in BodyRequests("PUT", RaceBodies) : \E getOk \in BOOLEAN :
        LET c == updateUserCheck(store, r, getOk)
        IN  /\ req' = [req EXCEPT ![p] = r]
            /\ pc' = [pc EXCEPT ![p] = IF ~c.done THEN "put"
                                       ELSE IF c.out.panic THEN "panic" ELSE "done"]
            /\ resp' = [resp EXCEPT ![p] = c.out.resp]
            /\ pending' = [pending EXCEPT ![p] = c.user]
            /\ pcalls' = [pcalls EXCEPT ![p] = c.out.calls]
            /\ raced' = [raced EXCEPT ![p] = FALSE]
            /\ UNCHANGED <<store, serviceVars>>

\* the rest of updateUser: the save and the response
FinishUpdate(p) ==
    /\ pc[p] = "put"
    /\ req[p].HTTPMethod = "PUT"
    /\ \E putOk \in BOOLEAN :
        LET o == updateUserSave(store, pending[p], putOk)
        IN  /\ store' = o.store
            /\ resp' = [resp EXCEPT ![p] = o.resp]
            /\ pcalls' = [pcalls EXCEPT ![p] = pcalls[p] \o o.calls]
            /\ pc' = [pc EXCEPT ![p] = "done"]
            /\ UNCHANGED <<req, pending, raced, serviceVars>>

\* a GET or a DELETE makes one store call: the whole handler is one step
RunGetOrDelete(p) ==
    /\ pc[p] = "idle"
    /\ \E m \in {"GET", "DELETE"} : \E r \in QueryRequests(m, RaceEmails) :
       \E ok \in BOOLEAN :
        LET o == handler(store, r, ok, TRUE)
        IN  /\ store' = o.store
            /\ req' = [req EXCEPT ![p] = r]
            /\ resp' = [resp EXCEPT ![p] = o.resp]
            /\ pcalls' = [pcalls EXCEPT ![p] = o.calls]
            /\ pc' = [pc EXCEPT ![p] = "done"]
            /\ raced' = [raced EXCEPT ![p] = FALSE]
            /\ UNCHANGED <<pending, serviceVars>>

\* the invocation is over; the instance takes the next request (after a
\* panic, a fresh instance does)
Return(p) ==
    /\ pc[p] \in {"done", "panic"}
    /\ pc' = [pc EXCEPT ![p] = "idle"]
    /\ req' = [req EXCEPT ![p] = NoRequest]
    /\ resp' = [resp EXCEPT ![p] = NoResponse]
    /\ pending' = [pending EXCEPT ![p] = ZeroUser]
    /\ pcalls' = [pcalls EXCEPT ![p] = <<>>]
    /\ raced' = [raced EXCEPT ![p] = FALSE]
    /\ UNCHANGED <<store, serviceVars>>

NextRace ==
    \E p \in Procs :
        \/ StartCreate(p)
        \/ FinishCreate(p)
        \/ StartUpdate(p)
        \/ FinishUpdate(p)
        \/ RunGetOrDelete(p)
        \/ Return(p)

SpecRace == Init /\ [][NextRace]_vars

-----------------------------------------------------------------------------
(* Properties *)

AllOk(cs) == \A i \in 1..Len(cs) : cs[i].ok

Ops(cs) == [i \in 1..Len(cs) |-> cs[i].op]

Served == request # NoRequest

IsError(rsp, status, msg) == rsp.StatusCode = status /\ rsp.Body = ErrorBody(msg)

\* the record stored under an email, decoded, when there is exactly one
StoredUser(st, email) == UnmarshalMap(CHOOSE i \in ItemsAt(st, email) : TRUE).user

\* C1: with no store failures, a POST for a valid email that has no record is
\* answered 201, and a POST for the same email handled right after a POST
\* that was answered 201 is answered 400 "User already exists" and leaves the
\* table as the first one left it.
C1_CreateTwice ==
    [][ ( /\ request'.HTTPMethod = "POST"
          /\ request'.Body.wellFormed
          /\ isEmailValid(request'.Body.email)
          /\ AllOk(calls') )
        => /\ ~panicked'
           /\ ItemsAt(store, request'.Body.email) = {}
                => response'.StatusCode = StatusCreated
           /\ ( /\ request.HTTPMethod = "POST"
                /\ request.Body.wellFormed
                /\ request.Body.email = request'.Body.email
                /\ response.StatusCode = StatusCreated )
                => /\ IsError(response', StatusBadRequest, ErrorUserAlreadyExists)
                   /\ store' = store
      ]_vars

\* a second POST with other names was rejected and the first POST's record is
\* still the stored one
C1_Witness ==
    /\ request.HTTPMethod = "POST"
    /\ IsError(response, StatusBadRequest, ErrorUserAlreadyExists)
    /\ AllOk(calls)
    /\ written # Nil
    /\ written.by = "POST"
    /\ written.user.Email = request.Body.email
    /\ written.user.FirstName # request.Body.firstName
    /\ ItemsAt(store, request.Body.email) = {MarshalMap(written.user).av}

\* the stored record under the body's email after a 201 is the body, whole
WholeRecordStored ==
    ( /\ request.HTTPMethod \in {"POST", "PUT"}
      /\ ~panicked
      /\ response.StatusCode = StatusCreated )
    => /\ Cardinality(ItemsAt(store, request.Body.email)) = 1
       /\ StoredUser(store, request.Body.email) = json_Unmarshal(request.Body).user

\* C2 as stated: after a POST or PUT with record r was answered 201, a GET
\* for r's email before any other write is answered 200 with r's names, and
\* the stored record is the request body, whole.
C2_Original ==
    /\ ( /\ request.HTTPMethod = "GET"
         /\ written # Nil
         /\ request.QueryEmail = written.user.Email )
       => /\ response.StatusCode = StatusOK
          /\ response.Body = json_MarshalUser(written.user)
    /\ WholeRecordStored

\* C2, amended: the same, for a GET whose lookup call succeeds.
C2_ReadYourWrite ==
    /\ ( /\ request.HTTPMethod = "GET"
         /\ written # Nil
         /\ request.QueryEmail = written.user.Email
         /\ AllOk(calls) )
       => /\ response.StatusCode = StatusOK
          /\ response.Body = json_MarshalUser(written.user)
    /\ WholeRecordStored

\* a GET read back a record that a PUT had written with an empty last name
C2_Witness ==
    /\ request.HTTPMethod = "GET"
    /\ written # Nil
    /\ written.by = "PUT"
    /\ request.QueryEmail = written.user.Email
    /\ written.user.LastName = EmptyString
    /\ response.StatusCode = StatusOK
    /\ response.Body = json_MarshalUser(written.user)

\* C3: a PUT whose body parses and whose email has no record is answered 400
\* "User does not exist".
C3_UpdateMissing ==
    ( /\ request.HTTPMethod = "PUT"
      /\ request.Body.wellFormed
      /\ ~existed )
    => /\ ~panicked
       /\ IsError(response, StatusBadRequest, ErrorUserDoesNotExists)

\* C4 as stated: a GET with a non-empty email that has no record is answered
\* 400 "Failed to fetch record"; 200 is returned only when the record is found.
C4_Original ==
    ( /\ request.HTTPMethod = "GET"
      /\ len(request.QueryEmail) > 0
      /\ ~existed )
    => IsError(response, StatusBadRequest, ErrorFailedToFetchRecord)

\* C4, amended: a GET with a non-empty email is answered 400 "Failed to fetch
\* record" exactly when the lookup call fails; when it succeeds the answer is
\* 200, with the stored record if there is one and with a record of three
\* empty strings if there is none.
C4_FetchMissing ==
    ( /\ request.HTTPMethod = "GET"
      /\ len(request.QueryEmail) > 0 )
    => /\ ~panicked
       /\ Ops(calls) = <<"GetItem">>
       /\ ~AllOk(calls) => IsError(response, StatusBadRequest, ErrorFailedToFetchRecord)
       /\ AllOk(calls) =>
            /\ response.StatusCode = StatusOK
            /\ ~existed => response.Body = json_MarshalUser(ZeroUser)
            /\ existed => response.Body = json_MarshalUser(StoredUser(store, request.QueryEmail))

\* a GET for an email without a record was answered 200 with the empty record
C4_Witness ==
    /\ request.HTTPMethod = "GET"
    /\ request.QueryEmail = EmailA
    /\ ~existed
    /\ ItemsAt(store, EmailA) = {}
    /\ response.StatusCode = StatusOK
    /\ response.Body = json_MarshalUser(ZeroUser)

\* C5: whatever the request and the outcome of each store call, the handler
\* returns an HTTP response and does not crash.
C5_NeverCrashes ==
    Served =>
        /\ ~panicked
        /\ response.StatusCode \in {StatusOK, StatusCreated, StatusBadRequest,
                                    StatusMethodNotAllowed, StatusUnprocessableEntity}

\* C6 as stated: a DELETE is answered 200 for any email, whether or not a
\* record exists.
C6_Original ==
    request.HTTPMethod = "DELETE" => response.StatusCode = StatusOK

\* C6, amended: a DELETE whose delete call succeeds is answered 200 for any
\* email, whether or not a record existed, and leaves no record under it; a
\* DELETE whose delete call fails is answered 400 "Could not delete item".
C6_Delete ==
    request.HTTPMethod = "DELETE" =>
        /\ ~panicked
        /\ Ops(calls) = <<"DeleteItem">>
        /\ AllOk(calls) =>
             /\ response.StatusCode = StatusOK
             /\ ItemsAt(store, request.QueryEmail) = {}
        /\ ~AllOk(calls) => IsError(response, StatusBadRequest, ErrorCouldNotDeleteItem)

\* a DELETE for an email that had no record was answered 200
C6_Witness ==
    /\ request.HTTPMethod = "DELETE"
    /\ request.QueryEmail = EmailB
    /\ ~existed
    /\ response.StatusCode = StatusOK

\* C7: the method alone selects the handler.  GET makes one GetItem or Scan;
\* DELETE makes one DeleteItem; POST creates (201 for a new valid email, 400
\* for an existing one); PUT updates (201 for an existing email, 400 for a
\* missing one); any other method is answered 405 "Method Not Allowed" and
\* makes no store call.
C7_Router ==
    Served =>
        /\ request.HTTPMethod = "GET" =>
             /\ Ops(calls) = IF len(request.QueryEmail) > 0 THEN <<"GetItem">> ELSE <<"Scan">>
             /\ response.StatusCode \in {StatusOK, StatusBadRequest}
        /\ request.HTTPMethod = "DELETE" => Ops(calls) = <<"DeleteItem">>
        /\ ( /\ request.HTTPMethod = "POST"
             /\ request.Body.wellFormed
             /\ isEmailValid(request.Body.email)
             /\ AllOk(calls) )
           => /\ existed => IsError(response, StatusBadRequest, ErrorUserAlreadyExists)
              /\ ~existed => response.StatusCode = StatusCreated
        /\ ( /\ request.HTTPMethod = "PUT"
             /\ request.Body.wellFormed
             /\ AllOk(calls) )
           => /\ existed => response.StatusCode = StatusCreated
              /\ ~existed => IsError(response, StatusBadRequest, ErrorUserDoesNotExists)
        /\ request.HTTPMethod \notin {"GET", "POST", "PUT", "DELETE"} =>
             /\ ~panicked
             /\ IsError(response, StatusMethodNotAllowed, ErrorMethodNotAllowed)
             /\ calls = <<>>

\* a PATCH was answered 405 without a store call, with a record in the table
C7_Witness ==
    /\ request.HTTPMethod = "PATCH"
    /\ IsError(response, StatusMethodNotAllowed, ErrorMethodNotAllowed)
    /\ calls = <<>>
    /\ store # {}

\* C10: a request that is not answered 200 or 201 leaves the table as it
\* was, and so does every GET; the table changes only by a POST or PUT
\* answered 201 or a DELETE answered 200, and then only under the request's
\* email.
C10_Frame ==
    [][ /\ (panicked' \/ response'.StatusCode \notin {StatusOK, StatusCreated})
           => store' = store
        /\ request'.HTTPMethod = "GET" => store' = store
        /\ store' # store =>
             \/ request'.HTTPMethod \in {"POST", "PUT"} /\ response'.StatusCode = StatusCreated
             \/ request'.HTTPMethod = "DELETE" /\ response'.StatusCode = StatusOK
        /\ {i \in store' : i.email # [S |-> KeyOf(request')]}
             = {i \in store : i.email # [S |-> KeyOf(request')]}
      ]_vars

\* a POST whose put failed was answered 400 and its email still has no
\* record, while the other email's record is in the table
C10_Witness ==
    /\ request.HTTPMethod = "POST"
    /\ IsError(response, StatusBadRequest, ErrorCouldNotDynamoPutItem)
    /\ ItemsAt(store, request.Body.email) = {}
    /\ store # {}

-----------------------------------------------------------------------------
(* Properties of concurrent invocations *)

\* p and q are two POSTs for one email that both passed the existence check
\* before either wrote, and both have returned
RacedPair(p, q) ==
    /\ p # q
    /\ pc[p] = "done" /\ pc[q] = "done"
    /\ req[p].HTTPMethod = "POST" /\ req[q].HTTPMethod = "POST"
    /\ req[p].Body.email = req[q].Body.email
    /\ raced[p] /\ raced[q]

\* C8: a POST that passed the existence check while another POST for the
\* same email stood between its own check and its write is answered 201
\* whenever its store calls succeed: the other's write does not make it fail.
\* With C8_Witness: there is an interleaving in which both are answered 201.
C8_BothPass ==
    \A p \in Procs :
        (pc[p] = "done" /\ raced[p] /\ AllOk(pcalls[p]))
        => /\ Ops(pcalls[p]) = <<"GetItem", "PutItem">>
           /\ resp[p].StatusCode = StatusCreated

\* two POSTs for one email, both past the check before either write, both 201
C8_Witness ==
    \E p, q \in Procs :
        /\ RacedPair(p, q)
        /\ resp[p].StatusCode = StatusCreated
        /\ resp[q].StatusCode = StatusCreated

\* C9 as stated: after two racing POSTs for one email were both answered 201
\* the table holds two records with that email.
C9_Original ==
    \A p, q \in Procs :
        ( /\ RacedPair(p, q)
          /\ resp[p].StatusCode = StatusCreated
          /\ resp[q].StatusCode = StatusCreated )
        => Cardinality(ItemsAt(store, req[p].Body.email)) >= 2

\* C9, amended: the table never holds two records with the same email,
\* racing POSTs or not: the later put replaces the earlier record.
C9_NoDuplicates ==
    \A i, j \in store : i.email = j.email => i = j

\* two racing POSTs with different names were both answered 201 and the table
\* holds the one record of the later writer
C9_Witness ==
    \E p, q \in Procs :
        /\ RacedPair(p, q)
        /\ resp[p].StatusCode = StatusCreated
        /\ resp[q].StatusCode = StatusCreated
        /\ req[p].Body # req[q].Body
        /\ ItemsAt(store, req[p].Body.email) = {MarshalMap(json_Unmarshal(req[q].Body).user).av}

=============================================================================
